---- MODULE Spec2Model ----
(***************************************************************************)
(* A model of the ASTERIX record decoding engine of parser.js: the byte    *)
(* helpers, the FSPEC parser, the category and decoder tables, the record  *)
(* orchestrator parseRecord and the lazy stream decoder parseAsterixStream.*)
(*                                                                         *)
(* Conventions.                                                            *)
(*  - A buffer (Uint8Array) is a sequence of integers 0..255.  The source  *)
(*    indexes from 0, TLA+ sequences from 1: At(view, off) is view[off].   *)
(*  - A hex string is the sequence of its characters.                      *)
(*  - A JavaScript number that is a quotient is kept as the reduced        *)
(*    fraction <<numerator, denominator>> (Rat); null is <<>>.             *)
(*  - A call that throws is the record [threw |-> TRUE, error |-> msg];    *)
(*    a call that returns carries threw |-> FALSE.                         *)
(***************************************************************************)
EXTENDS Integers, Sequences, FiniteSets, TLC

\* ------------------------------- Byte helpers -------------------------------

\* view[off]: the byte at a 0-based index, or Undefined outside the array.
Undefined == -1

At(view, off) ==
    IF off >= 0 /\ off < Len(view) THEN view[off + 1] ELSE Undefined

\* (b >> i) & 0x01
BitOf(b, i) == (b \div (2 ^ i)) % 2

readU16BE(view, off) == At(view, off) * 256 + At(view, off + 1)

\* A signed read without the sign: the unsigned value.
readI16BE_Unsigned(view, off) == readU16BE(view, off)

readI16BE(view, off) ==
    LET v == readU16BE(view, off)
    IN  IF v >= 32768 THEN v - 65536 ELSE v

readU24BE(view, off) ==
    At(view, off) * 65536 + At(view, off + 1) * 256 + At(view, off + 2)

HexDigits ==
    <<"0", "1", "2", "3", "4", "5", "6", "7",
      "8", "9", "a", "b", "c", "d", "e", "f">>

\* A rendering without the padding: one digit for a byte below 16.
HexByte_NoPad(b) ==
    IF b < 16 THEN <<HexDigits[b + 1]>>
    ELSE <<HexDigits[(b \div 16) + 1], HexDigits[(b % 16) + 1]>>

\* b.toString(16).padStart(2, "0")
HexByte(b) == <<HexDigits[(b \div 16) + 1], HexDigits[(b % 16) + 1]>>

\* view.slice(from, to): both ends clamped to the array, empty when to <= from.
Slice(view, from, to) ==
    LET n == Len(view)
        lo == IF from > n THEN n ELSE from
        hi == IF to > n THEN n ELSE IF to < 0 THEN 0 ELSE to
    IN  IF hi <= lo THEN <<>> ELSE SubSeq(view, lo + 1, hi)

RECURSIVE HexOf(_)
HexOf(bytes) ==
    IF bytes = <<>> THEN <<>> ELSE HexByte(Head(bytes)) \o HexOf(Tail(bytes))

toHex(view, off, len) == HexOf(Slice(view, off, off + len))

UpperChar(c) ==
    CASE c = "a" -> "A" [] c = "b" -> "B" [] c = "c" -> "C"
      [] c = "d" -> "D" [] c = "e" -> "E" [] c = "f" -> "F"
      [] OTHER -> c

toUpperCase(s) == [k \in 1..Len(s) |-> UpperChar(s[k])]

\* ------------------------------ Number helpers ------------------------------

Abs(n) == IF n < 0 THEN -n ELSE n

RECURSIVE GCD(_, _)
GCD(a, b) == IF b = 0 THEN a ELSE GCD(b, a % b)

\* The quotient n / d (d > 0) as a reduced fraction.
Rat(n, d) ==
    LET g == GCD(Abs(n), d)
    IN  <<n \div g, d \div g>>

Null == <<>>

\* ------------------------------- FSPEC parsing ------------------------------

\* The while loop of parseFSPEC: the bytes from off up to and including the
\* first one with FX = 0, or a throw when the array ends first.
RECURSIVE FSPECLoop(_, _, _)
FSPECLoop(view, off, bytes) ==
    LET b == At(view, off)
    IN  IF b = Undefined
        THEN [threw |-> TRUE, error |-> "Truncated FSPEC"]
        ELSE IF b % 2 = 0
             THEN [threw |-> FALSE, bytes |-> Append(bytes, b), endOffset |-> off + 1]
             ELSE FSPECLoop(view, off + 1, Append(bytes, b))

\* A bit array that takes bits 1..7 of each byte, low bit first.
FSPECBits_LowBitFirst(bytes) ==
    [p \in 1..(7 * Len(bytes)) |->
        BitOf(bytes[((p - 1) \div 7) + 1], 1 + ((p - 1) % 7))]

\* Bits 7..1 of each FSPEC byte, in order: entry 7k+j (j = 0..6) of the
\* 0-based bit array is bit 7-j of byte k.
FSPECBits(bytes) ==
    [p \in 1..(7 * Len(bytes)) |->
        BitOf(bytes[((p - 1) \div 7) + 1], 7 - ((p - 1) % 7))]

parseFSPEC(view, start) ==
    LET r == FSPECLoop(view, start, <<>>)
    IN  IF r.threw
        THEN r
        ELSE [threw |-> FALSE, bytes |-> r.bytes, endOffset |-> r.endOffset,
              bits |-> FSPECBits(r.bytes)]

\* ------------------------------- Category defs ------------------------------

UAP34 ==
    <<"I034/010", "I034/000", "I034/030", "I034/020", "I034/041", "I034/050",
      "I034/060",
      "I034/070", "I034/100", "I034/110", "I034/120", "I034/090", "I034/RE",
      "I034/SP">>

UAP48 ==
    <<"I048/010", "I048/020", "I048/040", "I048/070", "I048/090", "I048/130",
      "I048/220",
      "I048/240", "I048/250", "I048/161", "I048/042", "I048/200", "I048/170",
      "I048/030",
      "I048/080", "I048/100", "I048/110", "I048/120", "I048/140", "I048/230",
      "I048/260", "I048/055", "I048/065", "I048/071", "I048/072", "I048/073",
      "I048/075">>

\* The category table as the module builds it: category number -> [uap].
BuiltinCategoryDefs == (34 :> [uap |-> UAP34]) @@ (48 :> [uap |-> UAP48])

\* ----------------------------- Data item decoders ---------------------------

Returned(value, length) == [threw |-> FALSE, value |-> value, length |-> length]

\* throw new Error(`Truncated ${name}`)
Truncated(name) == [threw |-> TRUE, error |-> <<"Truncated ", name>>]

\* The loop shared by the FX-chained decoders: the octets from cur up to and
\* including the first with FX = 0; <<Undefined>> when the array ends first.
RECURSIVE FxOctets(_, _, _)
FxOctets(view, cur, octets) ==
    LET b == At(view, cur)
    IN  IF b = Undefined
        THEN <<Undefined>>
        ELSE IF b % 2 = 0
             THEN Append(octets, b)
             ELSE FxOctets(view, cur + 1, Append(octets, b))

\* A raw decoder that takes one octet, whatever its FX bit.
parseFxChainRaw_OneOctet(view, off, name) ==
    IF At(view, off) = Undefined
    THEN Truncated(name)
    ELSE Returned([raw |-> toHex(view, off, 1)], 1)

parseFxChainRaw(view, off, name) ==
    LET octets == FxOctets(view, off, <<>>)
    IN  IF octets = <<Undefined>>
        THEN Truncated(name)
        ELSE Returned([raw |-> toHex(octets, 0, Len(octets))], Len(octets))

parseLenPrefixedOrFx(view, off, name) ==
    LET rep == At(view, off)
    IN  IF rep # Undefined /\ off + 1 + 2 * rep <= Len(view)
        THEN LET end == off + 1 + 2 * rep
             IN  Returned([raw |-> toHex(view, off, end - off)], end - off)
        ELSE parseFxChainRaw(view, off, name)

\* A data source identifier decoder without the length check.
DataSourceId_Unchecked(view, off, name) ==
    Returned([sac |-> At(view, off), sic |-> At(view, off + 1)], 2)

\* Data Source Identifier (SAC, SIC), both categories.
DataSourceId(view, off, name) ==
    IF off + 2 > Len(view) THEN Truncated(name)
    ELSE Returned([sac |-> At(view, off), sic |-> At(view, off + 1)], 2)

MessageTypeName(t) ==
    CASE t = 1 -> "North Marker"
      [] t = 2 -> "Sector Crossing"
      [] t = 3 -> "Geographical Filtering"
      [] t = 4 -> "Jamming Strobe"
      [] t = 5 -> "Solar Storm"
      [] t = 6 -> "SSR Jamming Strobe"
      [] t = 7 -> "Mode S Jamming Strobe"
      [] OTHER -> "Unknown"

I034_000(view, off) ==
    IF off + 1 > Len(view) THEN Truncated("I034/000")
    ELSE LET t == At(view, off)
         IN  Returned([type |-> t, name |-> MessageTypeName(t)], 1)

\* Time of day, 3 bytes, 1/128 s (I034/030 and I048/140).
TimeOfDay(view, off, name) ==
    IF off + 3 > Len(view) THEN Truncated(name)
    ELSE LET raw == readU24BE(view, off)
         IN  Returned([raw |-> raw, seconds |-> Rat(raw, 128)], 3)

I034_020(view, off) ==
    IF off + 1 > Len(view) THEN Truncated("I034/020")
    ELSE LET raw == At(view, off)
         IN  Returned([raw |-> raw, sector_deg |-> Rat(raw * 360, 256)], 1)

I034_041(view, off) ==
    IF off + 2 > Len(view) THEN Truncated("I034/041")
    ELSE LET raw == readU16BE(view, off)
         IN  Returned([raw |-> raw, seconds |-> Rat(raw, 128),
                       rpm |-> IF raw > 0 THEN Rat(60 * 128, raw) ELSE Null], 2)

I034_100(view, off) ==
    IF off + 8 > Len(view) THEN Truncated("I034/100")
    ELSE Returned([rho_start_nm |-> Rat(readU16BE(view, off), 256),
                   rho_end_nm |-> Rat(readU16BE(view, off + 2), 256),
                   theta_start_deg |-> Rat(readU16BE(view, off + 4) * 360, 65536),
                   theta_end_deg |-> Rat(readU16BE(view, off + 6) * 360, 65536)], 8)

DataFilterName(t) ==
    CASE t = 1 -> "Weather"
      [] t = 2 -> "Jamming Strobe"
      [] t = 3 -> "PSR"
      [] t = 4 -> "SSR/Mode S"
      [] t = 5 -> "SSR/Mode S + PSR"
      [] t = 6 -> "Enhanced Surveillance"
      [] t = 7 -> "PSR + Enhanced Surveillance"
      [] t = 8 -> "PSR+ES + SSR/Mode S not in AoI"
      [] t = 9 -> "PSR+ES + all SSR/Mode S"
      [] OTHER -> "Unknown/Reserved"

I034_110(view, off) ==
    IF off + 1 > Len(view) THEN Truncated("I034/110")
    ELSE LET t == At(view, off)
         IN  Returned([type |-> t, name |-> DataFilterName(t)], 1)

toSigned24(x) == IF x >= 8388608 THEN x - 16777216 ELSE x

I034_120(view, off) ==
    IF off + 8 > Len(view) THEN Truncated("I034/120")
    ELSE LET hRaw == readU16BE(view, off)
             lat24 == readU24BE(view, off + 2)
             lon24 == readU24BE(view, off + 5)
         IN  Returned([height_m |-> IF hRaw >= 32768 THEN hRaw - 65536 ELSE hRaw,
                       lat_deg |-> Rat(toSigned24(lat24) * 180, 8388608),
                       lon_deg |-> Rat(toSigned24(lon24) * 180, 8388608)], 8)

s8(x) == IF x >= 128 THEN x - 256 ELSE x

I034_090(view, off) ==
    IF off + 2 > Len(view) THEN Truncated("I034/090")
    ELSE LET raw16 == readU16BE(view, off)
             rangeErr == (raw16 \div 256) % 256
             azErr == raw16 % 256
         IN  Returned([range_err_nm |-> Rat(s8(rangeErr), 128),
                       az_err_deg |-> Rat(s8(azErr) * 360, 16384)], 2)

I048_020(view, off) ==
    LET octets == FxOctets(view, off, <<>>)
    IN  IF octets = <<Undefined>>
        THEN Truncated("I048/020")
        ELSE LET b0 == octets[1]
             IN  Returned([raw |-> toHex(octets, 0, Len(octets)),
                           detectionType |-> (b0 \div 32) % 8,
                           simulated |-> BitOf(b0, 4) = 1,
                           reportedAsBad |-> BitOf(b0, 3) = 1,
                           testTarget |-> BitOf(b0, 2) = 1,
                           meaconing |-> BitOf(b0, 1) = 1], Len(octets))

\* A polar position decoder that reads its two fields low byte first.
I048_040_LowByteFirst(view, off) ==
    IF off + 4 > Len(view) THEN Truncated("I048/040")
    ELSE LET rho == At(view, off + 1) * 256 + At(view, off)
             theta == At(view, off + 3) * 256 + At(view, off + 2)
         IN  Returned([rho_raw |-> rho, theta_raw |-> theta,
                       range_nm |-> Rat(rho, 256),
                       bearing_deg |-> Rat(theta * 360, 65536)], 4)

I048_040(view, off) ==
    IF off + 4 > Len(view) THEN Truncated("I048/040")
    ELSE LET rho == readU16BE(view, off)
             theta == readU16BE(view, off + 2)
         IN  Returned([rho_raw |-> rho, theta_raw |-> theta,
                       range_nm |-> Rat(rho, 256),
                       bearing_deg |-> Rat(theta * 360, 65536)], 4)

I048_070(view, off) ==
    IF off + 2 > Len(view) THEN Truncated("I048/070")
    ELSE LET code == readU16BE(view, off) % 8192
             d1 == (code \div 512) % 8
             d2 == (code \div 64) % 8
             d3 == (code \div 8) % 8
             d4 == code % 8
         IN  Returned([code_octal |-> <<HexDigits[d1 + 1], HexDigits[d2 + 1],
                                        HexDigits[d3 + 1], HexDigits[d4 + 1]>>,
                       raw |-> code], 2)

I048_090(view, off) ==
    IF off + 2 > Len(view) THEN Truncated("I048/090")
    ELSE LET raw == readI16BE(view, off)
         IN  Returned([raw |-> raw, flightLevel |-> Rat(raw, 4)], 2)

I048_220(view, off) ==
    IF off + 4 > Len(view) THEN Truncated("I048/220")
    ELSE LET gsRaw == readU16BE(view, off)
             hdgRaw == readU16BE(view, off + 2)
         IN  Returned([gs_raw |-> gsRaw, heading_raw |-> hdgRaw,
                       mps |-> Rat(gsRaw * 1852, 16384),
                       kts |-> Rat(gsRaw * 3600, 16384),
                       heading_deg |-> Rat(hdgRaw * 360, 65536)], 4)

I048_240(view, off) ==
    IF off + 3 > Len(view) THEN Truncated("I048/240")
    ELSE Returned([icao24 |-> toUpperCase(toHex(view, off, 3))], 3)

I048_161(view, off) ==
    IF off + 2 > Len(view) THEN Truncated("I048/161")
    ELSE Returned(readU16BE(view, off), 2)

I048_042(view, off) ==
    IF off + 4 > Len(view) THEN Truncated("I048/042")
    ELSE LET x == readI16BE(view, off)
             y == readI16BE(view, off + 2)
         IN  Returned([x_raw |-> x, y_raw |-> y,
                       x_nm |-> Rat(x, 256), y_nm |-> Rat(y, 256)], 4)

I048_200(view, off) ==
    IF off + 4 > Len(view) THEN Truncated("I048/200")
    ELSE LET vx == readI16BE(view, off)
             vy == readI16BE(view, off + 2)
         IN  Returned([vx_raw |-> vx, vy_raw |-> vy,
                       vx_mps |-> Rat(vx * 1852, 16384),
                       vy_mps |-> Rat(vy * 1852, 16384),
                       vx_kts |-> Rat(vx * 3600, 16384),
                       vy_kts |-> Rat(vy * 3600, 16384)], 4)

\* The items whose decoder is (view, off) => parseFxChainRaw(view, off, id).
FxRawItems ==
    {"I034/050", "I034/060", "I034/RE", "I034/SP",
     "I048/130", "I048/250", "I048/170", "I048/030", "I048/080", "I048/100",
     "I048/110", "I048/120", "I048/230", "I048/260", "I048/055", "I048/065",
     "I048/071", "I048/072", "I048/073", "I048/075"}

\* The decoder table as the module builds it: category -> item id -> decoder.
\* A decoder (a closure in the source) is named by the item it was written for.
BuiltinDecoders ==
    (34 :> [id \in {UAP34[k] : k \in 1..Len(UAP34)} |-> id]) @@
    (48 :> [id \in {UAP48[k] : k \in 1..Len(UAP48)} |-> id])

\* decoder(view, cur): the call of one decoder of the table.
CallDecoder(decoder, view, off) ==
    CASE decoder \in {"I034/010", "I048/010"} -> DataSourceId(view, off, decoder)
      [] decoder = "I034/000" -> I034_000(view, off)
      [] decoder \in {"I034/030", "I048/140"} -> TimeOfDay(view, off, decoder)
      [] decoder = "I034/020" -> I034_020(view, off)
      [] decoder = "I034/041" -> I034_041(view, off)
      [] decoder = "I034/070" -> parseLenPrefixedOrFx(view, off, "I034/070")
      [] decoder = "I034/100" -> I034_100(view, off)
      [] decoder = "I034/110" -> I034_110(view, off)
      [] decoder = "I034/120" -> I034_120(view, off)
      [] decoder = "I034/090" -> I034_090(view, off)
      [] decoder = "I048/020" -> I048_020(view, off)
      [] decoder = "I048/040" -> I048_040(view, off)
      [] decoder = "I048/070" -> I048_070(view, off)
      [] decoder = "I048/090" -> I048_090(view, off)
      [] decoder = "I048/220" -> I048_220(view, off)
      [] decoder = "I048/240" -> I048_240(view, off)
      [] decoder = "I048/161" -> I048_161(view, off)
      [] decoder = "I048/042" -> I048_042(view, off)
      [] decoder = "I048/200" -> I048_200(view, off)
      [] decoder \in FxRawItems -> parseFxChainRaw(view, off, decoder)

\* ------------------------------- Core parsing --------------------------------

EmptyObject == <<>>

\* obj[key] = value
Put(obj, key, value) == (key :> value) @@ obj

Has(obj, key) == key \in DOMAIN obj

\* throw new Error(error), with what the call had done before it threw:
\* whether parseFSPEC had been called, and the decoder invocations (none: no
\* throw leaves parseRecord once the item walk has begun).
Threw(error, fspecCalled) ==
    [threw |-> TRUE, error |-> error, fspecCalled |-> fspecCalled, calls |-> <<>>]

\* A header check that accepts a header one byte short.
HeaderTruncated_OneShort(view, offset) == offset + 3 > Len(view) + 1

\* offset + 3 > view.length
HeaderTruncated(view, offset) == offset + 3 > Len(view)

\* const end = offset + len
RecordEnd(offset, len) == offset + len

\* A body check that accepts a record ending one byte past the buffer.
BodyTruncated_OnePast(view, end) == end > Len(view) + 1

\* end > view.length
BodyTruncated(view, end) == end > Len(view)

\* catDef ? catDef.uap : null
LookupUAP(defs, cat) ==
    IF cat \in DOMAIN defs
    THEN [isNull |-> FALSE, uap |-> defs[cat].uap]
    ELSE [isNull |-> TRUE, uap |-> <<>>]

\* DECODERS[cat] || {}
LookupDecoders(decs, cat) == IF cat \in DOMAIN decs THEN decs[cat] ELSE EmptyObject

MakeRecord(cat, len, fsBytes, items, rawItems) ==
    [category |-> cat, length |-> len,
     fspec_hex |-> toHex(fsBytes, 0, Len(fsBytes)),
     items |-> items, rawItems |-> rawItems]

\* The state of the item walk: the two maps, the cursor, and (for the
\* properties) the decoder invocations made so far, each with its cursor.
WalkStart(diStart) ==
    [items |-> EmptyObject, rawItems |-> EmptyObject, cur |-> diStart, calls |-> <<>>]

\* An unknown-category payload that runs to the end of the buffer.
UnknownCategory_ToBufferEnd(view, diStart, end) ==
    [WalkStart(diStart) EXCEPT
        !.rawItems = Put(@, "_unknownCategoryPayload",
                         toHex(view, diStart, Len(view) - diStart))]

\* rawItems._unknownCategoryPayload = toHex(view, diStart, end - diStart)
UnknownCategory(view, diStart, end) ==
    [WalkStart(diStart) EXCEPT
        !.rawItems = Put(@, "_unknownCategoryPayload", toHex(view, diStart, end - diStart))]

\* !itemId for itemId = uap[i]
NoItemAt(uap, i) == i >= Len(uap) \/ uap[i + 1] = ""

\* A break on an excess bit that leaves no flag.
ExcessBit_NoFlag(w) == w

\* rawItems._excessFSPECBit = true; break
ExcessBit(w) == [w EXCEPT !.rawItems = Put(@, "_excessFSPECBit", TRUE)]

\* rawItems[itemId] = { note }; break
MissingDecoder(w, itemId) ==
    [w EXCEPT !.rawItems =
        Put(@, itemId, [note |-> "No decoder; parsing stopped to avoid misalignment."])]

\* A catch that steps over the first byte of the failing item.
DecodeError_SkipByte(w, itemId, error) ==
    [w EXCEPT !.rawItems = Put(@, "_errorItem", [itemId |-> itemId, error |-> error]),
              !.cur = @ + 1]

\* catch (err): rawItems._errorItem = { itemId, error: err.message }; break
DecodeError(w, itemId, error) ==
    [w EXCEPT !.rawItems = Put(@, "_errorItem", [itemId |-> itemId, error |-> error])]

\* A store of the value that leaves the cursor where it was.
Decoded_NoAdvance(w, itemId, r) ==
    [w EXCEPT !.items = Put(@, itemId, r.value)]

\* items[itemId] = value; cur += length
Decoded(w, itemId, r) ==
    [w EXCEPT !.items = Put(@, itemId, r.value), !.cur = @ + r.length]

\* An overflow test that also fires on an item ending exactly at end.
Overflows_AtEnd(cur, end) == cur >= end

\* cur > end
Overflows(cur, end) == cur > end

\* rawItems._overflowItem = itemId; cur = end; break
Overflow(w, itemId, end) ==
    [w EXCEPT !.rawItems = Put(@, "_overflowItem", itemId), !.cur = end]

\* A walk that notes a missing decoder and goes on with the next bit.
RECURSIVE WalkItems_PastMissing(_, _, _, _, _, _, _)
WalkItems_PastMissing(view, uap, decMap, fsBits, end, i, w) ==
    IF i >= Len(fsBits) THEN w
    ELSE IF fsBits[i + 1] # 1
         THEN WalkItems_PastMissing(view, uap, decMap, fsBits, end, i + 1, w)
    ELSE IF NoItemAt(uap, i) THEN ExcessBit(w)
    ELSE LET itemId == uap[i + 1]
         IN  IF ~Has(decMap, itemId)
             THEN WalkItems_PastMissing(view, uap, decMap, fsBits, end, i + 1,
                                        MissingDecoder(w, itemId))
             ELSE LET r == CallDecoder(decMap[itemId], view, w.cur)
                      w1 == [w EXCEPT !.calls =
                                Append(@, [itemId |-> itemId, off |-> w.cur])]
                  IN  IF r.threw THEN DecodeError(w1, itemId, r.error)
                      ELSE LET w2 == Decoded(w1, itemId, r)
                           IN  IF Overflows(w2.cur, end)
                               THEN Overflow(w2, itemId, end)
                               ELSE WalkItems_PastMissing(view, uap, decMap, fsBits,
                                                          end, i + 1, w2)

\* The for loop over the FSPEC bits, from bit i (0-based) on.
RECURSIVE WalkItems(_, _, _, _, _, _, _)
WalkItems(view, uap, decMap, fsBits, end, i, w) ==
    IF i >= Len(fsBits) THEN w
    ELSE IF fsBits[i + 1] # 1 THEN WalkItems(view, uap, decMap, fsBits, end, i + 1, w)
    ELSE IF NoItemAt(uap, i) THEN ExcessBit(w)
    ELSE LET itemId == uap[i + 1]
         IN  IF ~Has(decMap, itemId) THEN MissingDecoder(w, itemId)
             ELSE LET r == CallDecoder(decMap[itemId], view, w.cur)
                      w1 == [w EXCEPT !.calls =
                                Append(@, [itemId |-> itemId, off |-> w.cur])]
                  IN  IF r.threw THEN DecodeError(w1, itemId, r.error)
                      ELSE LET w2 == Decoded(w1, itemId, r)
                           IN  IF Overflows(w2.cur, end)
                               THEN Overflow(w2, itemId, end)
                               ELSE WalkItems(view, uap, decMap, fsBits, end, i + 1, w2)

\* A tail test that also fires when the cursor has reached end.
WithTail_AtEnd(view, w, end) ==
    IF w.cur <= end
    THEN [w EXCEPT !.rawItems = Put(@, "_tail", toHex(view, w.cur, end - w.cur))]
    ELSE w

\* if (cur < end) rawItems._tail = toHex(view, cur, end - cur)
WithTail(view, w, end) ==
    IF w.cur < end
    THEN [w EXCEPT !.rawItems = Put(@, "_tail", toHex(view, w.cur, end - w.cur))]
    ELSE w

\* A return that reports the cursor as the next offset.
Return_AtCursor(cat, len, end, fs, w) ==
    [threw |-> FALSE,
     record |-> MakeRecord(cat, len, fs.bytes, w.items, w.rawItems),
     nextOffset |-> w.cur,
     fsBytes |-> fs.bytes, fsBits |-> fs.bits, diStart |-> fs.endOffset,
     cur |-> w.cur, calls |-> w.calls]

\* return { record, nextOffset: end }, with what the call did on the way:
\* the FSPEC it parsed, where the items start, the final cursor, the decoder
\* invocations.
Return(cat, len, end, fs, w) ==
    [threw |-> FALSE,
     record |-> MakeRecord(cat, len, fs.bytes, w.items, w.rawItems),
     nextOffset |-> end,
     fsBytes |-> fs.bytes, fsBits |-> fs.bits, diStart |-> fs.endOffset,
     cur |-> w.cur, calls |-> w.calls]

parseRecord(defs, decs, view, offset) ==
    IF HeaderTruncated(view, offset) THEN Threw("Truncated header", FALSE)
    ELSE LET cat == At(view, offset)
             len == readU16BE(view, offset + 1)
             end == RecordEnd(offset, len)
         IN  IF BodyTruncated(view, end) THEN Threw("Truncated record body", FALSE)
             ELSE LET uap == LookupUAP(defs, cat)
                      fs == parseFSPEC(view, offset + 3)
                  IN  IF fs.threw THEN Threw(fs.error, TRUE)
                      ELSE IF uap.isNull
                           THEN Return(cat, len, end, fs,
                                       UnknownCategory(view, fs.endOffset, end))
                           ELSE Return(cat, len, end, fs,
                                       WithTail(view,
                                           WalkItems(view, uap.uap, LookupDecoders(decs, cat),
                                                     fs.bits, end, 0,
                                                     WalkStart(fs.endOffset)),
                                           end))

\* --------------------------------- Inputs -----------------------------------

\* Bounds of the input buffers and of the consumer.
MaxBody == 4
MaxHeadBody == 3
MaxTailBody == 1
MaxRecords == 3

\* Category bytes: the two registered categories and an unregistered one.
Cats == {34, 48, 153}

\* Bytes after the header.  As FSPEC bytes: no bit / FX only / bit 7 / bit 7
\* and FX; as item bytes: FX-chain ends and continuations, REP counts 0 and 1.
BodyBytes == {0, 1, 128, 129}

\* The same without 129 and with 64: as a second FSPEC byte, the bit of an
\* 8-byte item.
HeadBytes == {0, 1, 64, 128}
TailBytes == {0, 128}

SeqsUpTo(S, n) == UNION {[1..k -> S] : k \in 0..n}

Frame(cat, lenHi, lenLo, body) == <<cat, lenHi, lenLo>> \o body

\* One header followed by a body, the declared length free: shorter than,
\* equal to and longer than the bytes present.
RecordInputs ==
    {Frame(c, 0, l, b) : c \in Cats, l \in 0..(MaxBody + 4), b \in SeqsUpTo(BodyBytes, MaxBody)}

\* Declared lengths with a high byte.
JumboInputs ==
    {Frame(c, hi, lo, b) : c \in Cats, hi \in {1, 255}, lo \in {0, 255},
                           b \in SeqsUpTo(TailBytes, MaxTailBody)}

\* Buffers shorter than a header.
ShortInputs == SeqsUpTo(Cats \cup {0}, 2)

Inputs == RecordInputs \cup JumboInputs \cup ShortInputs

\* A first frame whose declared length is its own length, or 0.
HeadFrames ==
    UNION {{Frame(c, 0, 3 + Len(b), b), Frame(c, 0, 0, b)} :
              c \in Cats, b \in SeqsUpTo(HeadBytes, MaxHeadBody)}

\* What follows it: a second frame with a free declared length, or a few
\* stray bytes.
TailFrames ==
    {Frame(c, 0, l, b) : c \in {34, 153}, l \in 0..(MaxTailBody + 4),
                         b \in SeqsUpTo(TailBytes, MaxTailBody)}
    \cup SeqsUpTo(TailBytes, MaxTailBody + 1)


\* The buffers handed to a single decoder: every sequence of at most
\* MaxItemLen bytes over DecoderBytes (zero, one, the high bit, and the bytes
\* 0x0a and 0x40 of RHO = 2560 and THETA = 16384).
MaxItemLen == 4

DecoderBytes == {0, 1, 10, 64, 128}

\* The buffers of the 8-byte items: a 16-bit field followed by two 24-bit
\* fields, each at zero, at its largest positive value, at its most negative
\* value and at all bits set.
Field16 == {<<0, 0>>, <<127, 255>>, <<128, 0>>, <<255, 255>>}

Field24 == {<<0, 0, 0>>, <<127, 255, 255>>, <<128, 0, 0>>, <<255, 255, 255>>}

LongInputs == {h \o a \o b : h \in Field16, a \in Field24, b \in Field24}

DecoderInputs == SeqsUpTo(DecoderBytes, MaxItemLen) \cup LongInputs

\* What setup code may add to the two tables: the category of Cats that the
\* module does not define, with a UAP of its own, and decoders for two of its
\* items, each an existing decoder of the table put under the new item.  The
\* two items sit at FSPEC positions 0 and 7: bit 7 of the first and of the
\* second FSPEC byte.
SetupCategory == CHOOSE c \in Cats : c \notin DOMAIN BuiltinCategoryDefs

SetupUAP ==
    <<"I153/010", "I153/020", "I153/030", "I153/040", "I153/050", "I153/060",
      "I153/070", "I153/080">>

SetupDecoders == ("I153/010" :> "I034/000") @@ ("I153/080" :> "I048/130")

\* The buffers decoded after setup: one frame of the added category or of a
\* built-in one, the declared length free.
SetupInputs ==
    {Frame(c, 0, l, b) : c \in {34, SetupCategory}, l \in 0..(MaxBody + 4),
                         b \in SeqsUpTo(BodyBytes, MaxBody)}

\* ------------------------- Enrichment: correlation -------------------------

MsPerDay == 86400000

\* new Date(`${utcDate}T00:00:00.000Z`).getTime() for the dates of the model;
\* any other string is an invalid date.
DateMs == ("1970-01-01" :> 0) @@ ("1970-01-02" :> MsPerDay)

\* new Date(ms).toISOString(): the date part (days since the epoch) and the
\* time part (milliseconds since midnight).
toISOString(ms) == <<ms \div MsPerDay, ms % MsPerDay>>

\* new Date(iso).getTime()
getTime(iso) == iso[1] * MsPerDay + iso[2]

\* Math.floor(seconds * 1000) of a quotient.
FloorMs(q) == (q[1] \div q[2]) * 1000 + ((q[1] % q[2]) * 1000) \div q[2]

\* timeOfDayToIso(utcDate, seconds): null unless seconds is a number and the
\* date is valid.
timeOfDayToIso(utcDate, seconds) ==
    IF seconds = Null THEN Null
    ELSE IF utcDate \notin DOMAIN DateMs THEN Null
    ELSE toISOString(DateMs[utcDate] + FloorMs(seconds))

\* String(n) of a non-negative integer, as in a template literal.
RECURSIVE DecimalOf(_)
DecimalOf(n) ==
    IF n < 10 THEN <<HexDigits[n + 1]>>
    ELSE Append(DecimalOf(n \div 10), HexDigits[(n % 10) + 1])

\* The correlation keys of a record's items: a key is its prefix followed by
\* the characters of the identity.  A track number 0 is falsy and gives no key.
CorrKeys(items) ==
    (IF Has(items, "I048/161") /\ items["I048/161"] # 0
     THEN <<(<<"cat48:trk:">> \o DecimalOf(items["I048/161"]))>> ELSE <<>>)
    \o (IF Has(items, "I048/240")
        THEN <<(<<"icao24:">> \o items["I048/240"].icao24)>> ELSE <<>>)
    \o (IF Has(items, "I048/070")
        THEN <<(<<"mode3a:">> \o items["I048/070"].code_octal)>> ELSE <<>>)

DefaultTrackMemoryTtlMs == 60000

\* const { utcDate, trackMemoryTtlMs = 60000 } = cfg || {}
TrackMemoryTtlMs(c) ==
    IF Has(c, "trackMemoryTtlMs") THEN c["trackMemoryTtlMs"]
    ELSE DefaultTrackMemoryTtlMs

\* new Correlator(ttlMs)
Correlator(ttlMs) == [ttlMs |-> ttlMs, map |-> EmptyObject]

\* Correlator.prune(nowIso): now is nowIso's time, or the clock's when nowIso
\* is null; an entry is deleted when its lastSeenMs is falsy or older than
\* ttlMs.
prune(c, nowIso, clock) ==
    LET now  == IF nowIso # Null THEN getTime(nowIso) ELSE clock
        kept == {k \in DOMAIN c.map :
                    ~(c.map[k].lastSeenMs = 0
                      \/ now - c.map[k].lastSeenMs > c.ttlMs)}
    IN  [c EXCEPT !.map = [k \in kept |-> c.map[k]]]

\* The loop of Correlator.update over the keys.
RECURSIVE UpdateKeys(_, _, _, _)
UpdateKeys(map, keys, nowMs, hits) ==
    IF keys = <<>> THEN [map |-> map, hits |-> hits]
    ELSE LET k   == Head(keys)
             cur == IF Has(map, k) THEN map[k]
                    ELSE [count |-> 0, lastSeenMs |-> 0]
             new == [count |-> cur.count + 1, lastSeenMs |-> nowMs]
         IN  UpdateKeys(Put(map, k, new), Tail(keys), nowMs,
                        Append(hits, [id |-> k, seenCount |-> new.count]))

\* Correlator.update(keys, timestampIso): every key is counted and stamped,
\* then the map is pruned; clock1 and clock2 are what Date.now() returns in
\* update and in prune when the record has no timestamp.
update(c, keys, timestampIso, clock1, clock2) ==
    LET nowMs == IF timestampIso # Null THEN getTime(timestampIso) ELSE clock1
        r     == UpdateKeys(c.map, keys, nowMs, <<>>)
    IN  [corr |-> prune([c EXCEPT !.map = r.map], timestampIso, clock2),
         hits |-> r.hits]

\* The timestamp enrichAsterix gives a record.
TimestampOf(c, rec) ==
    IF rec.category = 48 /\ Has(rec.items, "I048/140") /\ Has(c, "utcDate")
    THEN timeOfDayToIso(c["utcDate"], rec.items["I048/140"].seconds)
    ELSE Null

\* What enrichAsterix pushes for a record: its category, timestamp and
\* correlation, and the record itself (position, orientation and source are
\* left out: they take no part in the correlation).
Enriched(rec, timestampIso, keys, hits) ==
    [category |-> rec.category, timestamp |-> timestampIso,
     correlation |-> [keys |-> keys, hits |-> hits], raw |-> rec]

\* ---- Inputs of the enrichment ----

MaxEnriched == 3

\* Times of day (I048/140 raw, 1/128 s): 0 ms, 1000 ms and 2500 ms.
TimeRaws == {0, 128, 320}

\* Mode S addresses.
Addresses == {<<171, 205, 239>>, <<0, 0, 1>>}

ParsedTime(raw) == TimeOfDay(<<0, raw \div 256, raw % 256>>, 0, "I048/140").value

ParsedAddress(a) == I048_240(a, 0).value

Parsed48(items) == [category |-> 48, items |-> items]

\* Parsed records: a sighting of an address with and without a time of day,
\* a record with track number 0 and a Mode 3/A code, a record with a track
\* number and an address, and a record of another category.
EnrichRecords ==
    {Parsed48(Put(Put(EmptyObject, "I048/140", ParsedTime(t)),
                  "I048/240", ParsedAddress(a))) : t \in TimeRaws, a \in Addresses}
    \cup {Parsed48(Put(EmptyObject, "I048/240", ParsedAddress(<<171, 205, 239>>))),
          Parsed48(Put(Put(Put(EmptyObject, "I048/140", ParsedTime(128)),
                           "I048/161", I048_161(<<0, 0>>, 0).value),
                       "I048/070", I048_070(<<10, 1>>, 0).value)),
          Parsed48(Put(Put(Put(EmptyObject, "I048/140", ParsedTime(320)),
                           "I048/161", I048_161(<<0, 12>>, 0).value),
                       "I048/240", ParsedAddress(<<171, 205, 239>>))),
          [category |-> 34, items |-> EmptyObject]}

\* The configurations: with or without a date, with a time-to-live of one
\* second or the default.
EnrichConfigs ==
    {EmptyObject,
     Put(EmptyObject, "utcDate", "1970-01-01"),
     Put(EmptyObject, "utcDate", "1970-01-02"),
     Put(EmptyObject, "trackMemoryTtlMs", 1000),
     Put(Put(EmptyObject, "utcDate", "1970-01-01"), "trackMemoryTtlMs", 1000),
     Put(Put(EmptyObject, "utcDate", "1970-01-02"), "trackMemoryTtlMs", 1000)}

\* What Date.now() can return: later than every timestamp of the records.
Clock == {2000000000, 2000001500}

\* ------------------------------ Stream decoder ------------------------------

VARIABLES
    registered,     \* what setup code has added to the two tables:
                    \* [categories, decoders], both empty after loading
    view,           \* the buffer handed to the parser
    gen,            \* the generator: "start", "suspended" (at the yield),
                    \* "done" (returned), "threw"; "called" after a direct
                    \* call of parseRecord
    off,            \* the offset of the last call of parseRecord
    last,           \* the result of the last call of parseRecord
    out,            \* the records the consumer has received, in order
    err,            \* the error the consumer has received, or None
    records,        \* the parsed records handed to enrichAsterix
    cfg,            \* the configuration handed to enrichAsterix
    corr,           \* enrichAsterix's Correlator: [ttlMs, map], the map from
                    \* a key to [count, lastSeenMs]
    enriched        \* the enriched records pushed so far, in order

vars == <<registered, view, gen, off, last, out, err,
          records, cfg, corr, enriched>>

parserVars == <<registered, view, gen, off, last, out, err>>

enrichVars == <<records, cfg, corr, enriched>>

\* A category table that does not see what was added after loading.
CATEGORY_DEFS_AsLoaded == BuiltinCategoryDefs

\* The two exported tables: what the module builds, and what was added since
\* (an added entry replaces a built-in one of the same key).
CATEGORY_DEFS == registered.categories @@ BuiltinCategoryDefs

DECODERS ==
    [c \in DOMAIN registered.decoders \cup DOMAIN BuiltinDecoders |->
        IF c \notin DOMAIN registered.decoders THEN BuiltinDecoders[c]
        ELSE IF c \notin DOMAIN BuiltinDecoders THEN registered.decoders[c]
        ELSE registered.decoders[c] @@ BuiltinDecoders[c]]

None == "none"

InitOn(buffers) ==
    /\ registered = [categories |-> EmptyObject, decoders |-> EmptyObject]
    /\ view \in buffers
    /\ gen = "start"
    /\ off = 0
    /\ last = [threw |-> FALSE, nextOffset |-> 0]
    /\ out = <<>>
    /\ err = None
    /\ records = <<>>
    /\ cfg = EmptyObject
    /\ corr = Correlator(TrackMemoryTtlMs(EmptyObject))
    /\ enriched = <<>>

Init == InitOn(Inputs)

\* A buffer of two frames: a head frame followed by a tail frame.
InitStream == \E a \in HeadFrames : \E b \in TailFrames : InitOn({a \o b})

\* A generator that continues where the decoding of the record stopped.
ResumeOffset_AtCursor == IF gen = "start" THEN 0 ELSE last.cur

\* Where the generator continues when the consumer asks for the next record:
\* let off = 0 on the first request, off = nextOffset after a yield.
ResumeOffset == IF gen = "start" THEN 0 ELSE last.nextOffset

\* while (off < view.length)
LoopRuns(o) == o < Len(view)

\* The consumer asks for the next record (it stops asking after MaxRecords).
Requesting == gen \in {"start", "suspended"} /\ Len(out) < MaxRecords

\* next(): the loop runs, parseRecord returns, the record is yielded.
StreamYield ==
    /\ Requesting
    /\ LoopRuns(ResumeOffset)
    /\ LET r == parseRecord(CATEGORY_DEFS, DECODERS, view, ResumeOffset)
       IN  /\ ~r.threw
           /\ last' = r
           /\ out' = Append(out, r.record)
    /\ off' = ResumeOffset
    /\ gen' = "suspended"
    /\ UNCHANGED <<registered, view, err>>
    /\ UNCHANGED enrichVars

\* A decoder that collects the records before it hands them over: when
\* parseRecord throws, the error reaches the consumer and the records are lost.
StreamThrow_Eager ==
    /\ Requesting
    /\ LoopRuns(ResumeOffset)
    /\ LET r == parseRecord(CATEGORY_DEFS, DECODERS, view, ResumeOffset)
       IN  /\ r.threw
           /\ last' = r
           /\ err' = r.error
    /\ off' = ResumeOffset
    /\ gen' = "threw"
    /\ out' = <<>>
    /\ UNCHANGED <<registered, view>>
    /\ UNCHANGED enrichVars

\* next(): the loop runs, parseRecord throws, the error reaches the consumer.
StreamThrow ==
    /\ Requesting
    /\ LoopRuns(ResumeOffset)
    /\ LET r == parseRecord(CATEGORY_DEFS, DECODERS, view, ResumeOffset)
       IN  /\ r.threw
           /\ last' = r
           /\ err' = r.error
    /\ off' = ResumeOffset
    /\ gen' = "threw"
    /\ UNCHANGED <<registered, view, out>>
    /\ UNCHANGED enrichVars

\* next(): the loop condition fails, the generator returns.
StreamReturn ==
    /\ Requesting
    /\ ~LoopRuns(ResumeOffset)
    /\ off' = ResumeOffset
    /\ gen' = "done"
    /\ UNCHANGED <<registered, view, last, out, err>>
    /\ UNCHANGED enrichVars

\* Setup code adds a category to the exported category table, before any
\* decode: CATEGORY_DEFS[c] = { uap }.
RegisterCategory ==
    /\ gen = "start"
    /\ ~Has(registered.categories, SetupCategory)
    /\ registered' = [registered EXCEPT
                         !.categories = Put(@, SetupCategory, [uap |-> SetupUAP])]
    /\ UNCHANGED <<view, gen, off, last, out, err>>
    /\ UNCHANGED enrichVars

\* Setup code adds a decoder for one item of the category it has added to
\* the exported decoder table, before any decode: DECODERS[c][id] = decoder.
RegisterDecoder(id) ==
    /\ gen = "start"
    /\ Has(registered.categories, SetupCategory)
    /\ ~Has(LookupDecoders(registered.decoders, SetupCategory), id)
    /\ registered' = [registered EXCEPT
                         !.decoders = Put(@, SetupCategory,
                                          Put(LookupDecoders(@, SetupCategory),
                                              id, SetupDecoders[id]))]
    /\ UNCHANGED <<view, gen, off, last, out, err>>
    /\ UNCHANGED enrichVars

\* parseRecord(view, o) called directly (it is exported), at any offset.
CallParseRecord(o) ==
    /\ gen = "start"
    /\ off' = o
    /\ last' = parseRecord(CATEGORY_DEFS, DECODERS, view, o)
    /\ gen' = "called"
    /\ UNCHANGED <<registered, view, out, err>>
    /\ UNCHANGED enrichVars

\* DECODERS[c][id](view, o) called directly (the table is exported), at any
\* offset of the buffer; last keeps the table entry that was called.
CallItemDecoder(c, id, o) ==
    /\ gen = "start"
    /\ off' = o
    /\ last' = [category |-> c, itemId |-> id,
                result |-> CallDecoder(DECODERS[c][id], view, o)]
    /\ gen' = "decoded"
    /\ UNCHANGED <<registered, view, out, err>>
    /\ UNCHANGED enrichVars

\* parseFSPEC(view, start), at any start offset of the buffer.
CallParseFSPEC(start) ==
    /\ gen = "start"
    /\ off' = start
    /\ last' = parseFSPEC(view, start)
    /\ gen' = "fspec"
    /\ UNCHANGED <<registered, view, out, err>>
    /\ UNCHANGED enrichVars

Next ==
    \/ StreamYield
    \/ StreamThrow
    \/ StreamReturn
    \/ \E o \in 0..Len(view) : CallParseRecord(o)

\* parseRecord on one buffer: called directly at every offset, and by the
\* stream decoder.
Spec == Init /\ [][Next]_vars

InitSetup == InitOn(SetupInputs)

NextSetup ==
    \/ RegisterCategory
    \/ \E id \in DOMAIN SetupDecoders : RegisterDecoder(id)
    \/ \E o \in 0..Len(view) : CallParseRecord(o)

\* parseRecord on one buffer, called directly at every offset after setup
\* code has or has not added a category, and then decoders, to the tables.
SpecSetup == InitSetup /\ [][NextSetup]_vars

NextStream ==
    \/ StreamYield
    \/ StreamThrow
    \/ StreamReturn

\* parseAsterixStream on a buffer of two frames.
SpecStream == InitStream /\ [][NextStream]_vars

InitDecoders == InitOn(DecoderInputs)

NextDecoders ==
    \/ \E c \in DOMAIN DECODERS : \E id \in DOMAIN DECODERS[c] :
           \E o \in 0..Len(view) : CallItemDecoder(c, id, o)
    \/ \E start \in 0..Len(view) : CallParseFSPEC(start)

\* Each decoder of the table, and the FSPEC parser, on one buffer, called
\* at every offset.
SpecDecoders == InitDecoders /\ [][NextDecoders]_vars

\* enrichAsterix(records, cfg) after const corr = new Correlator(...) and
\* const out = []: no record is enriched yet.
InitEnrich ==
    /\ registered = [categories |-> EmptyObject, decoders |-> EmptyObject]
    /\ view = <<>>
    /\ gen = "start"
    /\ off = 0
    /\ last = [threw |-> FALSE, nextOffset |-> 0]
    /\ out = <<>>
    /\ err = None
    /\ records \in SeqsUpTo(EnrichRecords, MaxEnriched)
    /\ cfg \in EnrichConfigs
    /\ corr = Correlator(TrackMemoryTtlMs(cfg))
    /\ enriched = <<>>

\* One iteration of for (const rec of records): the timestamp, the keys,
\* corr.update and out.push.
EnrichRecord ==
    /\ Len(enriched) < Len(records)
    /\ LET rec          == records[Len(enriched) + 1]
           timestampIso == TimestampOf(cfg, rec)
           corrKeys     == CorrKeys(rec.items)
       IN  \E clock1 \in Clock : \E clock2 \in Clock :
               /\ clock1 <= clock2
               /\ LET u == update(corr, corrKeys, timestampIso, clock1, clock2)
                  IN  /\ corr' = u.corr
                      /\ enriched' = Append(enriched,
                                            Enriched(rec, timestampIso,
                                                     corrKeys, u.hits))
    /\ UNCHANGED <<records, cfg>>
    /\ UNCHANGED parserVars

NextEnrich == EnrichRecord

\* enrichAsterix on a list of parsed records, one record at a time.
SpecEnrich == InitEnrich /\ [][NextEnrich]_vars

\* -------------------------------- Properties --------------------------------

\* last is the result of parseRecord(view, off).
Called == gen \in {"called", "suspended", "threw"}

RecordReturned == Called /\ ~last.threw

\* The header fields as the wire format defines them: byte 0 of the record is
\* the category, bytes 1-2 the big-endian declared length.
WireCategory(o) == view[o + 1]

WireLength(o) == view[o + 2] * 256 + view[o + 3]

HasHeader(o) == o + 3 <= Len(view)

\* The lowercase hex of the bytes of view at the 0-based indices [from, to).
HexChar(n) ==
    CASE n = 0 -> "0" [] n = 1 -> "1" [] n = 2 -> "2" [] n = 3 -> "3"
      [] n = 4 -> "4" [] n = 5 -> "5" [] n = 6 -> "6" [] n = 7 -> "7"
      [] n = 8 -> "8" [] n = 9 -> "9" [] n = 10 -> "a" [] n = 11 -> "b"
      [] n = 12 -> "c" [] n = 13 -> "d" [] n = 14 -> "e" [] n = 15 -> "f"

HexOfRange(from, to) ==
    IF to <= from THEN <<>>
    ELSE [k \in 1..(2 * (to - from)) |->
            LET b == view[from + ((k + 1) \div 2)]
            IN  IF k % 2 = 1 THEN HexChar(b \div 16) ELSE HexChar(b % 16)]

\* C1: consuming parseAsterixStream terminates; in particular each record is
\* parsed at an offset strictly greater than the previous one, whatever the
\* declared length: after a record parsed at off, the stream continues at an
\* offset greater than off.
C1_OffsetsStrictlyIncrease ==
    gen = "suspended" => last.nextOffset > off

\* parseAsterixStream(buf), with buf decoded alone, yields exactly one record
\* and no fatal error: the first call returns and the loop then ends.
Alone(buf) == parseRecord(CATEGORY_DEFS, DECODERS, buf, 0)

YieldsOneRecord(buf) ==
    /\ Len(buf) > 0
    /\ ~Alone(buf).threw
    /\ Alone(buf).nextOffset >= Len(buf)

\* C2: for buffers A and B that each decode alone to exactly one record and
\* no fatal error, A ++ B decodes to exactly two records, the first equal to
\* A's record and the second to B's, field for field.
C2_Concatenation ==
    \A k \in 1..(Len(view) - 1) :
        LET A == SubSeq(view, 1, k)
            B == SubSeq(view, k + 1, Len(view))
        IN  (YieldsOneRecord(A) /\ YieldsOneRecord(B)) =>
                /\ gen = "suspended" /\ Len(out) = 1 => out[1] = Alone(A).record
                /\ gen = "suspended" /\ Len(out) = 2 => out[2] = Alone(B).record
                /\ gen = "done" => out = <<Alone(A).record, Alone(B).record>>
                /\ gen # "threw"

\* C3: with 3 bytes available at the offset, a declared length that reaches
\* past the end of the buffer makes parseRecord fail with 'Truncated record
\* body', before the FSPEC is parsed and before any decoder is invoked.
C3_TruncatedBody ==
    (Called /\ HasHeader(off) /\ off + WireLength(off) > Len(view)) =>
        /\ last.threw
        /\ last.error = "Truncated record body"
        /\ ~last.fspecCalled
        /\ last.calls = <<>>

\* A declared length past the end of the buffer, on a record whose FSPEC
\* chain also runs off the buffer.
C3_Witness ==
    /\ Called /\ HasHeader(off) /\ off + WireLength(off) > Len(view)
    /\ \A k \in (off + 3)..(Len(view) - 1) : view[k + 1] % 2 = 1
    /\ last.threw

\* The FSPEC chain of the record at o is still open on the record's last
\* byte: the record has FSPEC bytes, and every byte from o+3 to the declared
\* end has FX = 1.
ChainOpenAtRecordEnd(o) ==
    /\ WireLength(o) >= 4
    /\ \A k \in (o + 3)..(o + WireLength(o) - 1) : view[k + 1] % 2 = 1

\* C4: parseRecord fails with 'Truncated FSPEC' whenever the FSPEC chain is
\* still open on the last byte of the record, also when bytes of other
\* records follow in the buffer.
C4_TruncatedFSPEC ==
    (Called /\ HasHeader(off) /\ off + WireLength(off) <= Len(view)
            /\ ChainOpenAtRecordEnd(off)) =>
        (last.threw /\ last.error = "Truncated FSPEC")

\* C5: when the stream decoder arrives at an offset inside the buffer with
\* fewer than 3 bytes left, it fails with 'Truncated header': it neither
\* ends normally nor yields a record for the leftover bytes.
C5_TruncatedHeader ==
    (gen \in {"suspended", "threw", "done"} /\ off < Len(view) /\ Len(view) - off < 3) =>
        (gen = "threw" /\ err = "Truncated header")

\* One or two bytes are left over after a record of at least 4 bytes that
\* the consumer has received.
C5_Witness ==
    /\ gen = "threw" /\ err = "Truncated header"
    /\ Len(out) >= 1 /\ out[Len(out)].length >= 4
    /\ off > 0 /\ off < Len(view)

\* The record parseRecord returned, its category registered or not.
Registered(o) == WireCategory(o) \in DOMAIN CATEGORY_DEFS

WireEnd(o) == o + WireLength(o)

\* The FSPEC as the wire format defines it: the bytes from o+3 up to and
\* including the first with FX = 0; the items start right after it.
WireItemsStart(o) ==
    1 + CHOOSE k \in (o + 3)..(Len(view) - 1) :
            /\ view[k + 1] % 2 = 0
            /\ \A j \in (o + 3)..(k - 1) : view[j + 1] % 2 = 1

WireBitCount(o) == 7 * (WireItemsStart(o) - (o + 3))

\* FSPEC position p (0-based): bit 7 - (p mod 7) of FSPEC byte p div 7.
WireBitSet(o, p) == (view[o + 3 + (p \div 7) + 1] \div (2 ^ (7 - (p % 7)))) % 2 = 1

Items == last.record.items

RawItems == last.record.rawItems

\* C6: whenever parseRecord returns, nextOffset is offset + the declared
\* length of the header, whatever the category, the diagnostics and the
\* number of bytes the FSPEC and the decoders consumed.
C6_NextOffset ==
    RecordReturned => last.nextOffset = off + WireLength(off)

\* A record of a registered category returned after a decoder was invoked,
\* with its cursor short of the declared end.
C6_Witness ==
    /\ RecordReturned /\ Registered(off)
    /\ last.calls # <<>>
    /\ last.cur < WireEnd(off)

\* C7: for an unregistered category with a valid FSPEC there is no item
\* walk: items is empty, no decoder is invoked, and rawItems holds exactly
\* _unknownCategoryPayload, the hex of the bytes from the first byte after
\* the FSPEC up to offset + declared length, whatever bits the FSPEC has set.
C7_UnknownCategory ==
    (RecordReturned /\ ~Registered(off)) =>
        /\ Items = <<>>
        /\ last.calls = <<>>
        /\ RawItems = [_unknownCategoryPayload |->
                          HexOfRange(WireItemsStart(off), WireEnd(off))]

\* An unregistered category, FSPEC bits set, a payload inside the record and
\* bytes of the buffer after it.
C7_Witness ==
    /\ RecordReturned /\ ~Registered(off)
    /\ \E p \in 0..(WireBitCount(off) - 1) : WireBitSet(off, p)
    /\ WireItemsStart(off) < WireEnd(off)
    /\ WireEnd(off) < Len(view)

UapOf(o) == CATEGORY_DEFS[WireCategory(o)].uap

\* The set FSPEC bits at positions the UAP has no entry for, and before.
ExcessBits(o) ==
    {p \in Len(UapOf(o))..(WireBitCount(o) - 1) : WireBitSet(o, p)}

ListedBits(o) ==
    {p \in 0..(Len(UapOf(o)) - 1) : p < WireBitCount(o) /\ WireBitSet(o, p)}

\* The diagnostics of the stop conditions that can end the walk before an
\* excess bit is reached: decode error, overflow, missing decoder.
EarlierStop ==
    \/ Has(RawItems, "_errorItem")
    \/ Has(RawItems, "_overflowItem")
    \/ \E id \in DOMAIN RawItems : id \in {UapOf(off)[k] : k \in 1..Len(UapOf(off))}

\* C8: in the walk of a registered category, reaching the first set bit at a
\* position >= the UAP's length sets _excessFSPECBit and stops the walk:
\* items holds exactly the items of the set bits before it, nothing else is
\* decoded; with no set bit before it items is empty, and with no bytes after
\* the FSPEC there is no _tail.
C8_ExcessBit ==
    (RecordReturned /\ Registered(off)) =>
        /\ (ExcessBits(off) # {} /\ ~EarlierStop) =>
               (Has(RawItems, "_excessFSPECBit") /\ RawItems["_excessFSPECBit"] = TRUE)
        /\ Has(RawItems, "_excessFSPECBit") =>
               /\ ExcessBits(off) # {} /\ ~EarlierStop
               /\ DOMAIN Items = {UapOf(off)[p + 1] : p \in ListedBits(off)}
               /\ {last.calls[k].itemId : k \in 1..Len(last.calls)} = DOMAIN Items
               /\ Len(last.calls) = Cardinality(ListedBits(off))
               /\ ListedBits(off) = {} => Items = <<>>
               /\ (ListedBits(off) = {} /\ WireItemsStart(off) >= WireEnd(off)) =>
                      ~Has(RawItems, "_tail")

\* An excess bit reached after an item was decoded.
C8_Witness ==
    /\ RecordReturned /\ Registered(off)
    /\ Has(RawItems, "_excessFSPECBit")
    /\ Items # <<>>

\* The k-th decoder invocation of the returned record, run again.
Invocation(k) ==
    CallDecoder(DECODERS[WireCategory(off)][last.calls[k].itemId], view, last.calls[k].off)

\* C9: when a decoder throws, parseRecord still returns: _errorItem names the
\* item and the message, the item is absent from items, the items decoded
\* before it stay, nothing is decoded after it, the cursor stays at the
\* failing item's start so that the bytes up to the record end go to _tail,
\* and nextOffset is offset + declared length.
C9_DecodeError ==
    (RecordReturned /\ Registered(off)) =>
        \A k \in 1..Len(last.calls) :
            Invocation(k).threw =>
                /\ k = Len(last.calls)
                /\ Has(RawItems, "_errorItem")
                /\ RawItems["_errorItem"] =
                       [itemId |-> last.calls[k].itemId, error |-> Invocation(k).error]
                /\ WireCategory(off) \in DOMAIN BuiltinDecoders =>
                       Invocation(k).error = <<"Truncated ", last.calls[k].itemId>>
                /\ ~Has(Items, last.calls[k].itemId)
                /\ DOMAIN Items = {last.calls[j].itemId : j \in 1..(k - 1)}
                /\ last.cur = last.calls[k].off
                /\ IF last.cur < WireEnd(off)
                   THEN Has(RawItems, "_tail")
                        /\ RawItems["_tail"] = HexOfRange(last.cur, WireEnd(off))
                   ELSE ~Has(RawItems, "_tail")
                /\ last.nextOffset = WireEnd(off)

\* A decoder throws with bytes of the record still undecoded.
C9_Witness ==
    /\ RecordReturned /\ Registered(off)
    /\ last.calls # <<>>
    /\ Invocation(Len(last.calls)).threw
    /\ last.cur < WireEnd(off)

\* C10: when a decoder returns and the cursor plus its length is strictly
\* beyond the record end, _overflowItem names the item, the cursor is clamped
\* to the end, nothing is decoded after it and there is no _tail; an item
\* that ends at or before the end is no overflow.
C10_Overflow ==
    (RecordReturned /\ Registered(off)) =>
        \A k \in 1..Len(last.calls) :
            ~Invocation(k).threw =>
                IF last.calls[k].off + Invocation(k).length > WireEnd(off)
                THEN /\ k = Len(last.calls)
                     /\ Has(RawItems, "_overflowItem")
                     /\ RawItems["_overflowItem"] = last.calls[k].itemId
                     /\ last.cur = WireEnd(off)
                     /\ ~Has(RawItems, "_tail")
                ELSE ~(Has(RawItems, "_overflowItem")
                       /\ RawItems["_overflowItem"] = last.calls[k].itemId)

\* An item that starts inside the record and ends beyond it.
C10_Witness ==
    /\ RecordReturned /\ Registered(off)
    /\ Has(RawItems, "_overflowItem")
    /\ last.calls[Len(last.calls)].off < WireEnd(off)

\* The bytes the first k decoder invocations of the returned record consumed:
\* the lengths the decoders returned (a decoder that threw consumed nothing).
RECURSIVE ConsumedBy(_)
ConsumedBy(k) ==
    IF k = 0 THEN 0
    ELSE ConsumedBy(k - 1) + (IF Invocation(k).threw THEN 0 ELSE Invocation(k).length)

\* The cursor at the end of the item walk: the first byte after the FSPEC
\* plus the bytes the items consumed, clamped to the record end on overflow.
WalkCursor ==
    IF Has(RawItems, "_overflowItem") THEN WireEnd(off)
    ELSE WireItemsStart(off) + ConsumedBy(Len(last.calls))

\* The walk of the returned record stopped on one of its stop conditions.
Stopped ==
    \/ Has(RawItems, "_excessFSPECBit")
    \/ EarlierStop

\* C11: for every returned record of a registered category, _tail is present
\* exactly when the cursor at the end of the item walk, however the walk
\* ended, is strictly less than the record end, and it is then the lowercase
\* hex of exactly the bytes from the cursor to the end; when the items
\* consumed all bytes up to the end there is no _tail.
C11_Tail ==
    (RecordReturned /\ Registered(off)) =>
        /\ last.cur = WalkCursor
        /\ Has(RawItems, "_tail") <=> WalkCursor < WireEnd(off)
        /\ Has(RawItems, "_tail") =>
               RawItems["_tail"] = HexOfRange(WalkCursor, WireEnd(off))

\* A walk that ended by exhaustion after an item was decoded, with bytes of
\* the record left over.
C11_Witness ==
    /\ RecordReturned /\ Registered(off)
    /\ Items # <<>> /\ ~Stopped
    /\ Has(RawItems, "_tail") /\ RawItems["_tail"] # <<>>

\* C12: in every returned record no item identifier is both a key of items
\* and named in a diagnostic of rawItems: as the key of a missing-decoder
\* note, as _overflowItem, or as the itemId of _errorItem.
C12_Disjoint ==
    RecordReturned =>
        \A id \in DOMAIN Items :
            /\ ~Has(RawItems, id)
            /\ ~(Has(RawItems, "_overflowItem") /\ RawItems["_overflowItem"] = id)
            /\ ~(Has(RawItems, "_errorItem") /\ RawItems["_errorItem"].itemId = id)

\* The FSPEC chain that starts at o + 3 runs off the buffer: every byte from
\* there to the end of the buffer (there may be none) has FX = 1.
FSPECRunsOff(o) == \A k \in (o + 3)..(Len(view) - 1) : view[k + 1] % 2 = 1

\* The stream-level condition of the record at o, by the message of its
\* error, or None.
Fatal(o) ==
    IF ~HasHeader(o) THEN "Truncated header"
    ELSE IF o + WireLength(o) > Len(view) THEN "Truncated record body"
    ELSE IF FSPECRunsOff(o) THEN "Truncated FSPEC"
    ELSE None

OnlyFatalThrows ==
    Called => IF Fatal(off) = None THEN ~last.threw
              ELSE last.threw /\ last.error = Fatal(off)

\* The diagnostics of the yielded record r, _tail aside.
Diagnostics(r) == DOMAIN r.rawItems \ {"_tail"}

\* C13: parseRecord throws exactly on the three stream-level conditions
\* (fewer than 3 header bytes, declared end beyond the buffer, FSPEC chain
\* running off the buffer) and returns a record otherwise, whatever
\* diagnostics the record has; after a yielded record the stream decoder goes
\* on at offset + declared length: it ends only when that offset is at or
\* beyond the end of the buffer, and it yields the record parsed there unless
\* that record has one of the three conditions.
C13_OnlyStreamLevelErrors ==
    [][ /\ OnlyFatalThrows'
        /\ gen = "suspended" =>
               /\ off' = off + WireLength(off)
               /\ gen' = "done" <=> off' >= Len(view)
               /\ gen' = "suspended" <=> (off' < Len(view) /\ Fatal(off') = None)
               /\ gen' = "suspended" => out' = Append(out, last'.record)
      ]_vars

\* A first record of at least 4 bytes with a decode error, followed by a
\* second record that was yielded.
C13_Witness ==
    /\ gen = "suspended" /\ Len(out) = 2
    /\ out[1].length >= 4 /\ off = out[1].length
    /\ Has(out[1].rawItems, "_errorItem")

\* The offset of the k-th record of the buffer, by the declared lengths of
\* the records recs the consumer has received: 0, then each record's offset
\* plus its declared length.
RECURSIVE OffsetOf(_, _)
OffsetOf(recs, k) == IF k = 1 THEN 0 ELSE OffsetOf(recs, k - 1) + recs[k - 1].length

\* The stream decoder between two requests of the consumer: the generator g,
\* the offset o of its last call of parseRecord, the records recs and the
\* error e the consumer has received.
Lazy(g, o, recs, e) ==
    /\ \A k \in 1..Len(recs) :
           LET r == parseRecord(CATEGORY_DEFS, DECODERS, view, OffsetOf(recs, k))
           IN  ~r.threw /\ recs[k] = r.record
    /\ g \in {"start", "suspended", "done"} => e = None
    /\ g = "suspended" => o = OffsetOf(recs, Len(recs))
    /\ g = "done" => OffsetOf(recs, Len(recs) + 1) >= Len(view)
    /\ g = "threw" =>
           /\ o = OffsetOf(recs, Len(recs) + 1)
           /\ o < Len(view)
           /\ e # None /\ e = Fatal(o)

NthSetBit(o, k) ==
    CHOOSE p \in ListedBits(o) \cup ExcessBits(o) :
        Cardinality({q \in ListedBits(o) \cup ExcessBits(o) : q < p}) = k - 1

\* C15: in a returned record of a registered category whose walk met no stop
\* condition, every set FSPEC bit is at a position of the UAP, items holds
\* exactly the identifiers uap[i] of the set positions i, each with the value
\* its decoder returned; the decoders ran in increasing position order, the
\* first at the byte right after the FSPEC and each later one where the
\* previous item's consumed length ended, so that bits that are 0 consumed
\* no bytes.
C15_Positional ==
    (RecordReturned /\ Registered(off) /\ ~Stopped) =>
        /\ ExcessBits(off) = {}
        /\ DOMAIN Items = {UapOf(off)[p + 1] : p \in ListedBits(off)}
        /\ Len(last.calls) = Cardinality(ListedBits(off))
        /\ \A k \in 1..Len(last.calls) :
               /\ last.calls[k].itemId = UapOf(off)[NthSetBit(off, k) + 1]
               /\ last.calls[k].off = WireItemsStart(off) + ConsumedBy(k - 1)
               /\ ~Invocation(k).threw
               /\ Items[last.calls[k].itemId] = Invocation(k).value
        /\ last.cur = WireItemsStart(off) + ConsumedBy(Len(last.calls))

\* Two items decoded one after the other, at FSPEC positions with unset
\* positions between them, without a stop condition.
C15_Witness ==
    /\ RecordReturned /\ Registered(off) /\ ~Stopped
    /\ Len(last.calls) >= 2
    /\ last.calls[2].off > last.calls[1].off
    /\ NthSetBit(off, 2) > NthSetBit(off, 1) + 1

\* C16: the two tables are extensible without a change of the decoding
\* logic.  Once setup code has added a category with its UAP to the category
\* table, a record with that category byte has no unknown-category
\* diagnostic and is decoded by the item walk over that UAP: the decoders
\* invoked are those added for the items at the set FSPEC positions, in
\* order, and items holds what they return.  The result of parseRecord on a
\* record of any other category is what it is with the tables as loaded.
C16_Extensible ==
    (Called /\ HasHeader(off)) =>
        IF WireCategory(off) # SetupCategory
        THEN last = parseRecord(BuiltinCategoryDefs, BuiltinDecoders, view, off)
        ELSE (~last.threw /\ Has(registered.categories, SetupCategory)) =>
                /\ ~Has(RawItems, "_unknownCategoryPayload")
                /\ (ListedBits(off) # {} /\
                      Has(LookupDecoders(registered.decoders, SetupCategory),
                          SetupUAP[NthSetBit(off, 1) + 1])) => last.calls # <<>>
                /\ \A k \in 1..Len(last.calls) :
                       LET id == last.calls[k].itemId
                           r == CallDecoder(SetupDecoders[id], view, last.calls[k].off)
                       IN  /\ id = SetupUAP[NthSetBit(off, k) + 1]
                           /\ Has(registered.decoders[SetupCategory], id)
                           /\ ~r.threw => (Has(Items, id) /\ Items[id] = r.value)

\* A record of the added category whose two items with added decoders were
\* both decoded.
C16_Witness ==
    /\ RecordReturned /\ WireCategory(off) = SetupCategory
    /\ DOMAIN Items = DOMAIN SetupDecoders
    /\ RawItems = <<>>

\* last is the result of DECODERS[c][id](view, off).
Decoder(c, id) == gen = "decoded" /\ last.category = c /\ last.itemId = id

\* The bytes of the buffer from off on, as the wire format numbers them.
ItemByte(k) == view[off + k + 1]

ItemU16(k) == ItemByte(k) * 256 + ItemByte(k + 1)

\* A decoded quotient q (numerator, denominator) with q * d = n: the
\* denominator divides d, and the numerator times the cofactor is n.
IsQuotient(q, n, d) == q[2] > 0 /\ d % q[2] = 0 /\ q[1] * (d \div q[2]) = n

\* C17: with 4 bytes available, the I048/040 decoder consumes exactly 4 bytes
\* and returns rho_raw and theta_raw, the unsigned big-endian 16-bit values
\* of bytes 0-1 and 2-3, with range_nm * 256 = rho_raw and
\* bearing_deg * 65536 = theta_raw * 360; with 2 bytes available, the Data
\* Source Identifier decoder returns sac = byte 0 and sic = byte 1.
C17_PolarPosition ==
    /\ (Decoder(48, "I048/040") /\ off + 4 <= Len(view)) =>
           /\ ~last.result.threw
           /\ last.result.length = 4
           /\ last.result.value.rho_raw = ItemU16(0)
           /\ last.result.value.theta_raw = ItemU16(2)
           /\ IsQuotient(last.result.value.range_nm, ItemU16(0), 256)
           /\ IsQuotient(last.result.value.bearing_deg, ItemU16(2) * 360, 65536)
    /\ ((Decoder(48, "I048/010") \/ Decoder(34, "I034/010")) /\ off + 2 <= Len(view)) =>
           /\ ~last.result.threw
           /\ last.result.length = 2
           /\ last.result.value = [sac |-> ItemByte(0), sic |-> ItemByte(1)]

\* RHO = 2560 and THETA = 16384 decoded as 10 NM and 90 degrees.
C17_Witness ==
    /\ Decoder(48, "I048/040")
    /\ off + 4 <= Len(view) /\ ItemU16(0) = 2560 /\ ItemU16(2) = 16384
    /\ last.result.value.range_nm = <<10, 1>>
    /\ last.result.value.bearing_deg = <<90, 1>>

\* The decoders of the category of the record at o.
DecodersOf(o) == LookupDecoders(DECODERS, WireCategory(o))

\* The set FSPEC positions of the record at o whose UAP item has no decoder.
MissingBits(o) == {p \in ListedBits(o) : ~Has(DecodersOf(o), UapOf(o)[p + 1])}

Lowest(S) == CHOOSE p \in S : \A q \in S : p <= q

MissingNote == [note |-> "No decoder; parsing stopped to avoid misalignment."]

\* C18: when the walk of a returned record reaches a set FSPEC bit whose UAP
\* item has no decoder for the category (no earlier item failed or
\* overflowed), rawItems holds the missing-decoder note under that item's
\* identifier, the item is not in items, the items of the earlier set bits
\* are decoded and no later one is (with a decoder or not), the cursor stays
\* where the last decoded item ended, the bytes from there to the record end
\* go to _tail, and nextOffset is the record end.
C18_MissingDecoder ==
    (RecordReturned /\ Registered(off) /\ MissingBits(off) # {}
        /\ ~Has(RawItems, "_errorItem") /\ ~Has(RawItems, "_overflowItem")) =>
        LET p == Lowest(MissingBits(off))
            id == UapOf(off)[p + 1]
            before == {q \in ListedBits(off) : q < p}
        IN  /\ Has(RawItems, id) /\ RawItems[id] = MissingNote
            /\ ~Has(Items, id)
            /\ DOMAIN Items = {UapOf(off)[q + 1] : q \in before}
            /\ Len(last.calls) = Cardinality(before)
            /\ \A k \in 1..Len(last.calls) : Has(Items, last.calls[k].itemId)
            /\ ~Has(RawItems, "_excessFSPECBit")
            /\ last.cur = WireItemsStart(off) + ConsumedBy(Len(last.calls))
            /\ IF last.cur < WireEnd(off)
               THEN Has(RawItems, "_tail")
                    /\ RawItems["_tail"] = HexOfRange(last.cur, WireEnd(off))
               ELSE ~Has(RawItems, "_tail")
            /\ last.nextOffset = WireEnd(off)

\* The first set bit has no decoder, a later set bit has one, and bytes of
\* the record are left.
C18_Witness ==
    /\ RecordReturned /\ Registered(off) /\ MissingBits(off) # {}
    /\ \E q \in ListedBits(off) :
           q > Lowest(MissingBits(off)) /\ Has(DecodersOf(off), UapOf(off)[q + 1])
    /\ Has(RawItems, "_tail") /\ RawItems["_tail"] # <<>>
    /\ Items = <<>>

\* The 0-based index of the first byte at or after off whose least
\* significant bit is 0, when there is one.
ChainEnds == \E k \in off..(Len(view) - 1) : view[k + 1] % 2 = 0

ChainEnd ==
    CHOOSE k \in off..(Len(view) - 1) :
        /\ view[k + 1] % 2 = 0
        /\ \A j \in off..(k - 1) : view[j + 1] % 2 = 1

\* C19: parseFSPEC(view, start) consumes the bytes from start up to and
\* including the first byte whose least significant bit is 0, returns exactly
\* those bytes, endOffset = start + their count, and a bit sequence of 7
\* entries per byte in which entry 7k+j (j = 0..6) is bit 7-j of the k-th
\* byte: the continuation bits are not in it.
C19_ParseFSPEC ==
    (gen = "fspec" /\ ChainEnds) =>
        LET count == ChainEnd - off + 1
        IN  /\ ~last.threw
            /\ last.bytes = [k \in 1..count |-> view[off + k]]
            /\ last.bytes[count] % 2 = 0
            /\ \A k \in 1..(count - 1) : last.bytes[k] % 2 = 1
            /\ last.endOffset = off + count
            /\ Len(last.bits) = 7 * count
            /\ \A k \in 0..(count - 1) : \A j \in 0..6 :
                   last.bits[7 * k + j + 1] = (view[off + k + 1] \div (2 ^ (7 - j))) % 2

\* An FSPEC of several bytes that starts inside the buffer and ends before
\* the end of the buffer, with set and unset bits.
C19_Witness ==
    /\ gen = "fspec" /\ ChainEnds /\ ~last.threw
    /\ off > 0 /\ Len(last.bytes) >= 2 /\ last.endOffset < Len(view)
    /\ \E p \in 1..Len(last.bits) : last.bits[p] = 1
    /\ \E p \in 1..Len(last.bits) : last.bits[p] = 0

\* The items of the two built-in UAPs, and those among them that the
\* decoder table decodes into fields of their own.
BuiltinItems ==
    {UAP34[k] : k \in 1..Len(UAP34)} \cup {UAP48[k] : k \in 1..Len(UAP48)}

SemanticItems ==
    {"I034/010", "I034/000", "I034/030", "I034/020", "I034/041", "I034/100",
     "I034/110", "I034/120", "I034/090",
     "I048/010", "I048/020", "I048/040", "I048/070", "I048/090", "I048/220",
     "I048/240", "I048/161", "I048/042", "I048/200", "I048/140"}

PlaceholderItems == BuiltinItems \ SemanticItems

\* last is the result of the decoder of a placeholder item, on a buffer
\* that has a byte with FX = 0 at or after off.
PlaceholderDecoded ==
    gen = "decoded" /\ last.itemId \in PlaceholderItems /\ ChainEnds

\* What the generic chained-octet decoder returns at off: the bytes up to and
\* including the first with FX = 0, as hex, and their count.
IsChainResult(r) ==
    /\ ~r.threw
    /\ r.length = ChainEnd - off + 1
    /\ r.value = [raw |-> HexOfRange(off, ChainEnd + 1)]

\* C20 as stated: every item of the built-in UAPs without fields of its own
\* is decoded by the generic chained-octet decoder, on every input.
C20_AllGeneric ==
    PlaceholderDecoded => IsChainResult(last.result)

\* The count byte at off and the 1 + 2 * count bytes it announces fit in the
\* buffer.
RepFits == off < Len(view) /\ off + 1 + 2 * view[off + 1] <= Len(view)

\* C20 amended: every such item except I034/070 is decoded by the generic
\* chained-octet decoder; I034/070 is decoded by it only when the 1 + 2 * REP
\* bytes announced by its first byte do not fit in the buffer, and otherwise
\* it consumes exactly those 1 + 2 * REP bytes and returns their hex as raw.
C20_GenericExceptCounted ==
    PlaceholderDecoded =>
        IF last.itemId = "I034/070" /\ RepFits
        THEN /\ ~last.result.threw
             /\ last.result.length = 1 + 2 * view[off + 1]
             /\ last.result.value =
                    [raw |-> HexOfRange(off, off + 1 + 2 * view[off + 1])]
        ELSE IsChainResult(last.result)

\* A placeholder item other than I034/070 decoded on a chain of several
\* bytes that ends before the end of the buffer.
C20_Witness ==
    /\ PlaceholderDecoded
    /\ last.itemId = "I048/250"
    /\ ~last.result.threw
    /\ last.result.length >= 2 /\ off + last.result.length < Len(view)

\* The value of a lowercase hex digit, -1 for any other character.
HexValue(c) ==
    CASE c = "0" -> 0 [] c = "1" -> 1 [] c = "2" -> 2 [] c = "3" -> 3
      [] c = "4" -> 4 [] c = "5" -> 5 [] c = "6" -> 6 [] c = "7" -> 7
      [] c = "8" -> 8 [] c = "9" -> 9 [] c = "a" -> 10 [] c = "b" -> 11
      [] c = "c" -> 12 [] c = "d" -> 13 [] c = "e" -> 14 [] c = "f" -> 15
      [] OTHER -> -1

\* A hex string converted back to bytes, two digits per byte.
BytesOfHex(h) ==
    [k \in 1..(Len(h) \div 2) |-> HexValue(h[2 * k - 1]) * 16 + HexValue(h[2 * k])]

\* last is the result of an item decoder that is parseFxChainRaw, on a buffer
\* that has a byte with FX = 0 at or after off.
ChainDecoded ==
    gen = "decoded" /\ DECODERS[last.category][last.itemId] \in FxRawItems /\ ChainEnds

\* C21: on a byte sequence of zero or more bytes with LSB 1 followed by a
\* byte with LSB 0, parseFxChainRaw returns the number of those bytes as
\* length and a raw string of two lowercase hex digits per byte which,
\* converted back to bytes, is exactly the consumed byte sequence.
C21_RoundTrip ==
    ChainDecoded =>
        LET r == last.result
            count == ChainEnd - off + 1
        IN  /\ ~r.threw
            /\ r.length = count
            /\ Len(r.value.raw) = 2 * count
            /\ \A k \in 1..Len(r.value.raw) : HexValue(r.value.raw[k]) >= 0
            /\ BytesOfHex(r.value.raw) = [k \in 1..count |-> view[off + k]]

\* A chain of several bytes, one of them below 16, that starts inside the
\* buffer.
C21_Witness ==
    /\ ChainDecoded /\ ~last.result.threw
    /\ off > 0 /\ last.result.length >= 2
    /\ \E k \in 1..last.result.length : view[off + k] < 16 /\ view[off + k] > 0

\* C22: every built-in item decoder, called at any cursor of a buffer,
\* either throws 'Truncated <item id>' or returns a length of at least 1 that
\* ends inside the buffer, with a value that depends on the consumed bytes
\* only: the decoder returns the same on the consumed bytes alone.
C22_DecoderBounds ==
    gen = "decoded" =>
        LET r == last.result
            decoder == DECODERS[last.category][last.itemId]
        IN  IF r.threw
            THEN r.error = <<"Truncated ", last.itemId>>
            ELSE /\ r.length >= 1
                 /\ off + r.length <= Len(view)
                 /\ r = CallDecoder(decoder, SubSeq(view, off + 1, off + r.length), 0)

\* A decoder that returned inside a buffer with bytes before and after the
\* bytes it consumed.
C22_Witness ==
    /\ gen = "decoded" /\ last.itemId = "I048/040"
    /\ ~last.result.threw
    /\ off > 0 /\ off + last.result.length < Len(view)

ItemU24(k) == ItemByte(k) * 65536 + ItemByte(k + 1) * 256 + ItemByte(k + 2)

\* The two's complement value of the unsigned w-bit value u.
TwosComplement(u, w) == IF u < 2 ^ (w - 1) THEN u ELSE u - 2 ^ w

\* C23: signed fields are two's complement over their whole range.  With 2
\* bytes available I048/090 consumes 2 bytes, raw is the unsigned big-endian
\* 16-bit value u when u < 32768 and u - 65536 otherwise, and
\* flightLevel * 4 = raw; with 8 bytes available I034/120 consumes 8 bytes,
\* height_m is the same reinterpretation of bytes 0-1, and lat_deg and
\* lon_deg are the 24-bit values of bytes 2-4 and 5-7, v when v < 2^23 and
\* v - 2^24 otherwise, times 180 / 2^23.
C23_SignedFields ==
    /\ (Decoder(48, "I048/090") /\ off + 2 <= Len(view)) =>
           /\ ~last.result.threw
           /\ last.result.length = 2
           /\ last.result.value.raw = TwosComplement(ItemU16(0), 16)
           /\ IsQuotient(last.result.value.flightLevel, TwosComplement(ItemU16(0), 16), 4)
    /\ (Decoder(34, "I034/120") /\ off + 8 <= Len(view)) =>
           /\ ~last.result.threw
           /\ last.result.length = 8
           /\ last.result.value.height_m = TwosComplement(ItemU16(0), 16)
           /\ IsQuotient(last.result.value.lat_deg,
                         TwosComplement(ItemU24(2), 24) * 180, 8388608)
           /\ IsQuotient(last.result.value.lon_deg,
                         TwosComplement(ItemU24(5), 24) * 180, 8388608)

\* I034/120 on a negative height, the most negative latitude and a
\* longitude of -1 unit.
C23_Witness ==
    /\ Decoder(34, "I034/120") /\ off + 8 <= Len(view)
    /\ last.result.value.height_m < 0
    /\ last.result.value.lat_deg = <<-180, 1>>
    /\ ItemU24(5) = 16777215 /\ last.result.value.lon_deg[1] < 0

\* The number of bytes a hex string of the record stands for.
HexBytes(h) == Len(h) \div 2

TailByteCount(r) == IF Has(r, "_tail") THEN HexBytes(r["_tail"]) ELSE 0

\* C24: byte accounting.  For every returned record of a registered category
\* without an overflow diagnostic, 3 header bytes + the FSPEC bytes + the
\* bytes consumed by the items in items + the bytes of _tail (0 when absent)
\* add up to the declared length.
C24_ByteAccounting ==
    (RecordReturned /\ Registered(off) /\ ~Has(RawItems, "_overflowItem")) =>
        3 + HexBytes(last.record.fspec_hex) + ConsumedBy(Len(last.calls))
          + TailByteCount(RawItems) = WireLength(off)

\* The keys of the k-th enriched record.
KeysOf(i) ==
    {enriched[i].correlation.keys[n] : n \in DOMAIN enriched[i].correlation.keys}

\* The seenCount the k-th enriched record reports for key k.
SeenCount(i, k) ==
    LET hits == enriched[i].correlation.hits
    IN  hits[CHOOSE n \in DOMAIN hits : hits[n].id = k].seenCount

\* The earlier records that carry key k, and the last of them.
Sightings(j, k) == {i \in 1..(j - 1) : k \in KeysOf(i)}

PreviousSighting(j, k) ==
    CHOOSE i \in Sightings(j, k) : \A m \in Sightings(j, k) : m <= i

Stamp(i) == getTime(enriched[i].timestamp)

AllTimestamped == \A i \in 1..Len(enriched) : enriched[i].timestamp # Null

\* C25: correlation memory lasts trackMemoryTtlMs.  When every record carries
\* a timestamp, a key whose previous sighting is more than trackMemoryTtlMs
\* older than the current record's timestamp reports seenCount 1, whatever
\* was processed in between, and a key seen again within the time-to-live
\* reports the previous seenCount + 1.
C25_TrackMemoryTtl ==
    AllTimestamped =>
        \A j \in 1..Len(enriched) : \A k \in KeysOf(j) :
            Sightings(j, k) # {} =>
                LET p == PreviousSighting(j, k)
                IN  IF Stamp(j) - Stamp(p) > TrackMemoryTtlMs(cfg)
                    THEN SeenCount(j, k) = 1
                    ELSE SeenCount(j, k) = SeenCount(p, k) + 1

====
